---- MODULE Spec2Model ----
(***************************************************************************)
(* objparse: parsing the headers and tables of a PE image that is already  *)
(* mapped in memory (src/src/lib.rs), for the x86_64 target.  The x86      *)
(* branch of the source names ImageNtHeaders32 without importing it and    *)
(* stores an ImageTlsDirectory64 in TlsDir, so only x86_64 builds.         *)
(*                                                                         *)
(* Numbers.  A pointer or usize is 64 bits wide and a u32 may have its top *)
(* bit set, so every machine word is a tuple of four 16-bit limbs, least   *)
(* significant first; a u32 is a word whose two upper limbs are 0.         *)
(* Memory is a map from addresses to bytes; an address outside the map     *)
(* reads as 0 (a zero-filled mapped page).                                 *)
(***************************************************************************)
EXTENDS Integers, Sequences, FiniteSets, TLC

VARIABLES
    mem,            \* the bytes of the address space, address -> byte
    img,            \* the field values the image in mem was laid out from
    headers,        \* what PeHeaders::parse returned, or not called yet
    parse_derefs,   \* the addresses PeHeaders::parse dereferenced, in order
    table,          \* what the last *_table_mem call returned
    items,          \* what the last export-table iterator yielded, collected
    callbacks,      \* the TlsCallbacks iterator, once created
    yielded         \* what each call of TlsCallbacks::next returned, in order

vars == <<mem, img, headers, parse_derefs, table, items, callbacks, yielded>>

----------------------------------------------------------------------------
(* Machine words *)

Limb == 256 * 256

Word(n) == <<n % Limb, (n \div Limb) % Limb, 0, 0>>

U32(hi, lo) == <<lo, hi, 0, 0>>

Zero == Word(0)

\* pointer `add` / usize `+` as x86_64 computes it: addition modulo 2^64
ptr_add(a, b) ==
    LET s1 == a[1] + b[1]
        s2 == a[2] + b[2] + (s1 \div Limb)
        s3 == a[3] + b[3] + (s2 \div Limb)
        s4 == a[4] + b[4] + (s3 \div Limb)
    IN  <<s1 % Limb, s2 % Limb, s3 % Limb, s4 % Limb>>

Complement(a) == [i \in 1..4 |-> (Limb - 1) - a[i]]

\* pointer `wrapping_sub`: subtraction modulo 2^64
wrapping_sub(a, b) == ptr_add(ptr_add(a, Complement(b)), Word(1))

\* usize `*` by a small constant (a size_of), modulo 2^64
usize_mul(a, c) ==
    LET m1 == a[1] * c
        m2 == a[2] * c + (m1 \div Limb)
        m3 == a[3] * c + (m2 \div Limb)
        m4 == a[4] * c + (m3 \div Limb)
    IN  <<m1 % Limb, m2 % Limb, m3 % Limb, m4 % Limb>>

\* usize `/` by a small constant (a size_of)
usize_div(a, c) ==
    LET q4 == a[4] \div c
        t3 == (a[4] % c) * Limb + a[3]
        q3 == t3 \div c
        t2 == (t3 % c) * Limb + a[2]
        q2 == t2 \div c
        t1 == (t2 % c) * Limb + a[1]
        q1 == t1 \div c
    IN  <<q1, q2, q3, q4>>

\* unsigned `>`
usize_gt(a, b) ==
    \E i \in 1..4 : a[i] > b[i] /\ \A j \in (i + 1)..4 : a[j] = b[j]

usize_le(a, b) == ~usize_gt(a, b)

\* element i of a slice or array at ptr whose elements are stride bytes
ElemPtr(ptr, i, stride) == ptr_add(ptr, usize_mul(Word(i), stride))

----------------------------------------------------------------------------
(* Memory reads, little-endian *)

ReadU8(m, p) == IF p \in DOMAIN m THEN m[p] ELSE 0

ReadU16(m, p) == ReadU8(m, p) + 256 * ReadU8(m, ptr_add(p, Word(1)))

ReadU32(m, p) == <<ReadU16(m, p), ReadU16(m, ptr_add(p, Word(2))), 0, 0>>

ReadU64(m, p) ==
    <<ReadU16(m, p), ReadU16(m, ptr_add(p, Word(2))),
      ReadU16(m, ptr_add(p, Word(4))), ReadU16(m, ptr_add(p, Word(6)))>>

\* CStr::from_ptr: the bytes from p up to the first NUL
RECURSIVE CStr_from_ptr(_, _)
CStr_from_ptr(m, p) ==
    IF ReadU8(m, p) = 0 THEN <<>>
    ELSE <<ReadU8(m, p)>> \o CStr_from_ptr(m, ptr_add(p, Word(1)))

----------------------------------------------------------------------------
(* Program constants: signatures, directory indices, record sizes and the  *)
(* field offsets of the object::pe records the parser reads                *)

IMAGE_DOS_SIGNATURE == 23117                \* 0x5A4D, "MZ"
IMAGE_NT_SIGNATURE == 17744                 \* 0x00004550, "PE\0\0"
IMAGE_NT_OPTIONAL_HDR64_MAGIC == 523        \* 0x20B
IMAGE_NT_OPTIONAL_HDR32_MAGIC == 267        \* 0x10B
MaxNtHeaderOffset == 1024

IMAGE_DIRECTORY_ENTRY_EXPORT == 0
IMAGE_DIRECTORY_ENTRY_IMPORT == 1
IMAGE_DIRECTORY_ENTRY_DEBUG == 6
IMAGE_DIRECTORY_ENTRY_TLS == 9

SizeOfImageNtHeaders64 == 136
SizeOfImageDataDirectory == 8
SizeOfImageSectionHeader == 40
SizeOfImageImportDescriptor == 20
SizeOfImageDebugDirectory == 28
SizeOfTlsCallbackSlot == 8
SizeOfU32 == 4
SizeOfU16 == 2

OffLfanew == 60                 \* ImageDosHeader.e_lfanew
OffNumberOfSections == 6        \* ImageNtHeaders64.file_header.number_of_sections
OffOptionalMagic == 24          \* ImageNtHeaders64.optional_header.magic
OffNumberOfRvaAndSizes == 132   \* ...optional_header.number_of_rva_and_sizes
OffDirSize == 4                 \* ImageDataDirectory.size
OffSectionVirtualAddress == 12  \* ImageSectionHeader.virtual_address
OffNumberOfFunctions == 20      \* ImageExportDirectory.number_of_functions
OffNumberOfNames == 24          \* ImageExportDirectory.number_of_names
OffAddressOfFunctions == 28     \* ImageExportDirectory.address_of_functions
OffAddressOfNames == 32         \* ImageExportDirectory.address_of_names
OffAddressOfNameOrdinals == 36  \* ImageExportDirectory.address_of_name_ordinals
OffAddressOfCallBacks == 24     \* ImageTlsDirectory64.address_of_call_backs

----------------------------------------------------------------------------
(* Bounds of the enumerated images *)

MaxNames == 2        \* names (and ordinals) of an export directory
MaxFunctions == 2    \* functions of an export directory
MaxCallbacks == 2    \* non-null TLS callbacks before the terminator
MaxCalls == 4        \* calls of TlsCallbacks::next that are followed
MaxRecords == 2      \* descriptors of an import or debug directory
MaxSections == 2     \* section headers

----------------------------------------------------------------------------
(* The image: PE records laid out in memory from their field values *)

Byte(val, i) ==
    LET l == val[(i \div 2) + 1] IN IF i % 2 = 0 THEN l % 256 ELSE l \div 256

\* the w bytes of val stored little-endian at addr
Cells(addr, w, val) == { <<ptr_add(addr, Word(i)), Byte(val, i)>> : i \in 0..(w - 1) }

\* the bytes of a string and its NUL stored at addr
StrCells(addr, str) ==
    { <<ptr_add(addr, Word(i - 1)), str[i]>> : i \in 1..Len(str) }
        \cup { <<ptr_add(addr, Word(Len(str))), 0>> }

MemOf(cells) ==
    [a \in { c[1] : c \in cells } |-> (CHOOSE c \in cells : c[1] = a)[2]]

BaseLow == <<0, 16384, 1, 0>>               \* 0x0000000140000000
BaseHigh == <<0, 49152, 65535, 65535>>      \* 0xFFFFFFFFC0000000

ExportRvaLow == Word(8192)                  \* 0x2000
ExportRvaHigh == U32(8192, 0)               \* 0x20000000
ImportRva == Word(12288)                    \* 0x3000
DebugRva == Word(16384)                     \* 0x4000
TlsRva == Word(20480)                       \* 0x5000

\* the RVA and size stored in data-directory entry i of image p
DirEntry(p, i) ==
    CASE i = IMAGE_DIRECTORY_ENTRY_EXPORT ->
            [virtual_address |-> p.export_rva, size |-> p.dir_size]
      [] i = IMAGE_DIRECTORY_ENTRY_IMPORT ->
            [virtual_address |-> ImportRva, size |-> p.dir_size]
      [] i = IMAGE_DIRECTORY_ENTRY_DEBUG ->
            [virtual_address |-> DebugRva, size |-> p.dir_size]
      [] i = IMAGE_DIRECTORY_ENTRY_TLS ->
            [virtual_address |-> p.tls_rva, size |-> p.dir_size]
      [] OTHER -> [virtual_address |-> Zero, size |-> Zero]

SectionVirtualAddress(j) == Word(4096 * (j + 1))

\* export directory contents: where the three tables and the names lie
AddressOfFunctions(p) == ptr_add(p.export_rva, Word(64))
AddressOfNames(p) == ptr_add(p.export_rva, Word(128))
AddressOfNameOrdinals(p) == ptr_add(p.export_rva, Word(192))
NameRva(p, i) == ptr_add(p.export_rva, Word(256 + 16 * i))
NameString(i) == <<102, 110, 49 + i>>       \* "fn1", "fn2", ...
FunctionRva(j) == Word(4096 + 16 * (j + 1))
NumberOfNames(p) == Len(p.ordinal_table)

\* TLS directory contents: the callback array and the callbacks in it
AddressOfCallBacks(p) == ptr_add(p.base, Word(20736))      \* base + 0x5100
Callback(p, i) == ptr_add(p.base, Word(24576 + 16 * i))    \* base + 0x6000 + ..

NtAddr(p) == ptr_add(p.base, p.e_lfanew)
DirsAddr(p) == ptr_add(NtAddr(p), Word(SizeOfImageNtHeaders64))
SectionsAddr(p) ==
    ElemPtr(DirsAddr(p), p.number_of_rva_and_sizes, SizeOfImageDataDirectory)
ExportAddr(p) == ptr_add(p.base, p.export_rva)
TlsAddr(p) == ptr_add(p.base, p.tls_rva)

HeaderCells(p) ==
    Cells(p.base, 2, Word(p.e_magic))
    \cup Cells(ptr_add(p.base, Word(OffLfanew)), 4, p.e_lfanew)
    \cup Cells(NtAddr(p), 4, p.signature)
    \cup Cells(ptr_add(NtAddr(p), Word(OffNumberOfSections)), 2,
               Word(p.number_of_sections))
    \cup Cells(ptr_add(NtAddr(p), Word(OffOptionalMagic)), 2, Word(p.magic))
    \cup Cells(ptr_add(NtAddr(p), Word(OffNumberOfRvaAndSizes)), 4,
               Word(p.number_of_rva_and_sizes))
    \cup UNION { Cells(ElemPtr(DirsAddr(p), i, SizeOfImageDataDirectory), 4,
                       DirEntry(p, i).virtual_address)
                 \cup Cells(ptr_add(ElemPtr(DirsAddr(p), i, SizeOfImageDataDirectory),
                                    Word(OffDirSize)), 4, DirEntry(p, i).size)
                 : i \in 0..(p.number_of_rva_and_sizes - 1) }
    \cup UNION { Cells(ptr_add(ElemPtr(SectionsAddr(p), j, SizeOfImageSectionHeader),
                               Word(OffSectionVirtualAddress)), 4,
                       SectionVirtualAddress(j))
                 : j \in 0..(p.number_of_sections - 1) }

ExportCells(p) ==
    Cells(ptr_add(ExportAddr(p), Word(OffNumberOfFunctions)), 4,
          Word(p.number_of_functions))
    \cup Cells(ptr_add(ExportAddr(p), Word(OffNumberOfNames)), 4,
               Word(NumberOfNames(p)))
    \cup Cells(ptr_add(ExportAddr(p), Word(OffAddressOfFunctions)), 4,
               AddressOfFunctions(p))
    \cup Cells(ptr_add(ExportAddr(p), Word(OffAddressOfNames)), 4, AddressOfNames(p))
    \cup Cells(ptr_add(ExportAddr(p), Word(OffAddressOfNameOrdinals)), 4,
               AddressOfNameOrdinals(p))
    \cup UNION { Cells(ElemPtr(ptr_add(p.base, AddressOfFunctions(p)), j, SizeOfU32),
                       4, FunctionRva(j))
                 : j \in 0..(p.number_of_functions - 1) }
    \cup UNION { Cells(ElemPtr(ptr_add(p.base, AddressOfNames(p)), i, SizeOfU32),
                       4, NameRva(p, i))
                 \cup Cells(ElemPtr(ptr_add(p.base, AddressOfNameOrdinals(p)), i,
                                    SizeOfU16), 2, Word(p.ordinal_table[i + 1]))
                 \cup StrCells(ptr_add(p.base, NameRva(p, i)), NameString(i))
                 : i \in 0..(NumberOfNames(p) - 1) }

\* [cb1, ..., cbn, null] at the address the TLS directory names
TlsCells(p) ==
    IF p.tls_rva = Zero THEN {}
    ELSE Cells(ptr_add(TlsAddr(p), Word(OffAddressOfCallBacks)), 8,
               AddressOfCallBacks(p))
         \cup UNION { Cells(ElemPtr(AddressOfCallBacks(p), i, SizeOfTlsCallbackSlot),
                            8, IF i < p.number_of_callbacks THEN Callback(p, i)
                               ELSE Zero)
                      : i \in 0..p.number_of_callbacks }

Image(p) == MemOf(HeaderCells(p) \cup ExportCells(p) \cup TlsCells(p))

----------------------------------------------------------------------------
(* Results *)

Uncalled == [tag |-> "Uncalled"]
Err(e) == [tag |-> "Err", error |-> e]
Ok(v) == [tag |-> "Ok", value |-> v]
Panic == [tag |-> "Panic"]
None == [tag |-> "None"]
Some(v) == [tag |-> "Some", value |-> v]

\* slice::from_raw_parts(ptr, len)
Slice(ptr, len) == [ptr |-> ptr, len |-> len]

\* a length or count that fits two limbs, as a number
ToNat(w) == w[1] + Limb * w[2]

----------------------------------------------------------------------------
(* PeHeaders::parse *)

\* the sanity check with the offset compared as the signed e_lfanew: an offset
\* with its top bit set is negative and passes
OffsetTooLarge_signed(nt_header_offset) ==
    nt_header_offset[2] < 32768 /\ usize_gt(nt_header_offset, Word(MaxNtHeaderOffset))

\* the sanity check on the NT-header offset, read as u32 and widened to usize
OffsetTooLarge(nt_header_offset) ==
    usize_gt(nt_header_offset, Word(MaxNtHeaderOffset))

\* the magic compared with the one of the other variant
is_valid_optional_magic_hdr32(m, nt_header_ptr) ==
    ReadU16(m, ptr_add(nt_header_ptr, Word(OffOptionalMagic)))
        = IMAGE_NT_OPTIONAL_HDR32_MAGIC

\* ImageNtHeaders64::is_valid_optional_magic
is_valid_optional_magic(m, nt_header_ptr) ==
    ReadU16(m, ptr_add(nt_header_ptr, Word(OffOptionalMagic)))
        = IMAGE_NT_OPTIONAL_HDR64_MAGIC

data_directories_ptr(nt_header_ptr) ==
    ptr_add(nt_header_ptr, Word(SizeOfImageNtHeaders64))

\* the directory count added as bytes, not as entries
section_headers_ptr_unscaled(dirs_ptr, num_data_directories) ==
    ptr_add(dirs_ptr, num_data_directories)

section_headers_ptr(dirs_ptr, num_data_directories) ==
    ptr_add(dirs_ptr, usize_mul(num_data_directories, SizeOfImageDataDirectory))

\* the result of parse, and the addresses it dereferenced on the way
PeHeaders_parse(m, address) ==
    LET dos_header_ptr == address
        e_magic == ReadU16(m, dos_header_ptr)
        nt_header_offset == ReadU32(m, ptr_add(dos_header_ptr, Word(OffLfanew)))
        nt_header_ptr == ptr_add(address, nt_header_offset)
        signature == ReadU32(m, nt_header_ptr)
        dirs_ptr == data_directories_ptr(nt_header_ptr)
        num_data_directories ==
            ReadU32(m, ptr_add(nt_header_ptr, Word(OffNumberOfRvaAndSizes)))
        num_section_headers ==
            Word(ReadU16(m, ptr_add(nt_header_ptr, Word(OffNumberOfSections))))
    IN  IF e_magic # IMAGE_DOS_SIGNATURE
        THEN [result |-> Err("PeHeaders"), derefs |-> <<dos_header_ptr>>]
        ELSE IF OffsetTooLarge(nt_header_offset)
        THEN [result |-> Err("PeHeaders"), derefs |-> <<dos_header_ptr>>]
        ELSE IF signature # Word(IMAGE_NT_SIGNATURE)
        THEN [result |-> Err("PeHeaders"),
              derefs |-> <<dos_header_ptr, nt_header_ptr>>]
        ELSE IF ~is_valid_optional_magic(m, nt_header_ptr)
        THEN [result |-> Err("PeHeaders"),
              derefs |-> <<dos_header_ptr, nt_header_ptr>>]
        ELSE [result |-> Ok([dos_header |-> dos_header_ptr,
                             nt_header |-> nt_header_ptr,
                             data_directories |->
                                 Slice(dirs_ptr, num_data_directories),
                             section_headers |->
                                 Slice(section_headers_ptr(dirs_ptr,
                                                           num_data_directories),
                                       num_section_headers)]),
              derefs |-> <<dos_header_ptr, nt_header_ptr>>]

\* data_directories.get(index): the entry read through the view, or None
data_directories_get(m, view, index) ==
    IF usize_gt(view.len, Word(index))
    THEN LET entry == ElemPtr(view.ptr, index, SizeOfImageDataDirectory)
         IN  Some([virtual_address |-> ReadU32(m, entry),
                   size |-> ReadU32(m, ptr_add(entry, Word(OffDirSize)))])
    ELSE None

\* section_headers[j].virtual_address read through the view
section_virtual_address(m, view, j) ==
    ReadU32(m, ptr_add(ElemPtr(view.ptr, j, SizeOfImageSectionHeader),
                       Word(OffSectionVirtualAddress)))

----------------------------------------------------------------------------
(* ExportTable *)

\* the directory's own RVA left in
export_array_ptr_no_sub(address, field_rva, rva) == ptr_add(address, field_rva)

\* address.add(field_rva).wrapping_sub(rva)
export_array_ptr(address, field_rva, rva) ==
    wrapping_sub(ptr_add(address, field_rva), rva)

ExportTable_parse(m, address, rva, size) ==
    LET export_directory_ptr == address
        field(off) == ReadU32(m, ptr_add(export_directory_ptr, Word(off)))
    IN  [export_directory |-> export_directory_ptr,
         address_table |->
             Slice(export_array_ptr(address, field(OffAddressOfFunctions), rva),
                   field(OffNumberOfFunctions)),
         name_table |->
             Slice(export_array_ptr(address, field(OffAddressOfNames), rva),
                   field(OffNumberOfNames)),
         ordinal_table |->
             Slice(export_array_ptr(address, field(OffAddressOfNameOrdinals), rva),
                   field(OffNumberOfNames)),
         start_address |-> address,
         size |-> size]

export_table_mem(m, hdrs, image_base) ==
    LET export_table_data_dir ==
            data_directories_get(m, hdrs.data_directories,
                                 IMAGE_DIRECTORY_ENTRY_EXPORT)
        export_table_rva == export_table_data_dir.value.virtual_address
        export_table_ptr == ptr_add(image_base, export_table_rva)
        export_table_size == export_table_data_dir.value.size
    IN  IF export_table_data_dir.tag = "None" THEN Err("ExportTable")
        ELSE Ok(ExportTable_parse(m, export_table_ptr, export_table_rva,
                                  export_table_size))

Min(a, b) == IF a < b THEN a ELSE b

\* name_table.iter().copied().zip(ordinal_table.iter().copied()), collected
iter_name_ord(m, t) ==
    [i \in 1..Min(ToNat(t.name_table.len), ToNat(t.ordinal_table.len)) |->
        <<ReadU32(m, ElemPtr(t.name_table.ptr, i - 1, SizeOfU32)),
          ReadU16(m, ElemPtr(t.ordinal_table.ptr, i - 1, SizeOfU16))>>]

\* the address table indexed with the stride of the ordinal table
address_table_get_unchecked_u16(m, t, ord, oob) ==
    IF ord < ToNat(t.address_table.len)
    THEN ReadU32(m, ElemPtr(t.address_table.ptr, ord, SizeOfU16))
    ELSE oob

\* address_table.get_unchecked(ord): past the end it is an out-of-bounds read,
\* whose value is whatever oob stands for
address_table_get_unchecked(m, t, ord, oob) ==
    IF ord < ToNat(t.address_table.len)
    THEN ReadU32(m, ElemPtr(t.address_table.ptr, ord, SizeOfU32))
    ELSE oob

\* iter_string_addr(image_base), collected
iter_string_addr(m, t, image_base, oob) ==
    LET pairs == iter_name_ord(m, t)
    IN  [i \in 1..Len(pairs) |->
            LET name_rva == pairs[i][1]
                ord == pairs[i][2]
                string_ptr == ptr_add(image_base, name_rva)
                address_rva == address_table_get_unchecked(m, t, ord, oob)
            IN  <<CStr_from_ptr(m, string_ptr), ptr_add(image_base, address_rva)>>]

----------------------------------------------------------------------------
(* ImportTable, DebugTable *)

\* the terminator counted in
number_of_entries_with_terminator(size, record_size) ==
    { Ok(usize_div(size, record_size)) }

\* `size / size_of::<T>() - 1` in usize: when the quotient is 0 the subtraction
\* panics in a build with overflow checks and wraps to 2^64 - 1 in one without
number_of_entries(size, record_size) ==
    LET q == usize_div(size, record_size)
    IN  IF q = Zero THEN { Panic, Ok(wrapping_sub(q, Word(1))) }
        ELSE { Ok(wrapping_sub(q, Word(1))) }

\* the outcomes of ImportTable::parse
ImportTable_parse(address, size) ==
    { IF n.tag = "Ok" THEN Ok([import_descriptors |-> Slice(address, n.value)])
      ELSE Panic
      : n \in number_of_entries(size, SizeOfImageImportDescriptor) }

\* the outcomes of DebugTable::parse
DebugTable_parse(address, size) ==
    { IF n.tag = "Ok" THEN Ok([debug_descriptors |-> Slice(address, n.value)])
      ELSE Panic
      : n \in number_of_entries(size, SizeOfImageDebugDirectory) }

import_table_mem(m, hdrs, image_base) ==
    LET import_table_data_dir ==
            data_directories_get(m, hdrs.data_directories,
                                 IMAGE_DIRECTORY_ENTRY_IMPORT)
        import_table_rva == import_table_data_dir.value.virtual_address
        import_table_size == import_table_data_dir.value.size
        import_table_ptr == ptr_add(image_base, import_table_rva)
    IN  IF import_table_data_dir.tag = "None" THEN { Err("ImportTable") }
        ELSE ImportTable_parse(import_table_ptr, import_table_size)

debug_table_mem(m, hdrs, image_base) ==
    LET debug_table_data_dir ==
            data_directories_get(m, hdrs.data_directories,
                                 IMAGE_DIRECTORY_ENTRY_DEBUG)
        debug_table_rva == debug_table_data_dir.value.virtual_address
        debug_table_size == debug_table_data_dir.value.size
        debug_table_ptr == ptr_add(image_base, debug_table_rva)
    IN  IF debug_table_data_dir.tag = "None" THEN { Err("DebugTable") }
        ELSE DebugTable_parse(debug_table_ptr, debug_table_size)

----------------------------------------------------------------------------
(* TlsDir, TlsCallbacks *)

TlsDir_parse(address) == [tls_dir |-> address]

\* absence decided by the size field, as a reader of the other accessors'
\* documentation would write it
tls_table_mem_by_size(m, hdrs, image_base) ==
    LET tls_table_data_dir ==
            data_directories_get(m, hdrs.data_directories,
                                 IMAGE_DIRECTORY_ENTRY_TLS)
        tls_table_rva == tls_table_data_dir.value.virtual_address
        tls_table_ptr == ptr_add(image_base, tls_table_rva)
    IN  IF tls_table_data_dir.tag = "None" THEN Err("TlsTable")
        ELSE IF tls_table_data_dir.value.size = Zero THEN Ok(None)
        ELSE Ok(Some(TlsDir_parse(tls_table_ptr)))

tls_table_mem(m, hdrs, image_base) ==
    LET tls_table_data_dir ==
            data_directories_get(m, hdrs.data_directories,
                                 IMAGE_DIRECTORY_ENTRY_TLS)
        tls_table_rva == tls_table_data_dir.value.virtual_address
        tls_table_ptr == ptr_add(image_base, tls_table_rva)
    IN  IF tls_table_data_dir.tag = "None" THEN Err("TlsTable")
        ELSE IF tls_table_rva = Zero THEN Ok(None)
        ELSE Ok(Some(TlsDir_parse(tls_table_ptr)))

TlsDir_callbacks(m, dir) ==
    [callback_addr |->
        ReadU64(m, ptr_add(dir.tls_dir, Word(OffAddressOfCallBacks)))]

\* the iterator after next: the value of callback_addr.add(1) is dropped, so
\* callback_addr stays where it was
TlsCallbacks_advance(it) == it

\* TlsCallbacks::next: the slot read (a null pointer is None) and the iterator
TlsCallbacks_next(m, it) ==
    LET slot == ReadU64(m, it.callback_addr)
    IN  [ret |-> IF slot = Zero THEN None ELSE Some(slot),
         it |-> TlsCallbacks_advance(it)]

----------------------------------------------------------------------------
(* The images the parser is run on *)

DefaultImage ==
    [base |-> BaseLow,
     e_magic |-> IMAGE_DOS_SIGNATURE,
     e_lfanew |-> Word(64),
     signature |-> Word(IMAGE_NT_SIGNATURE),
     magic |-> IMAGE_NT_OPTIONAL_HDR64_MAGIC,
     number_of_sections |-> 1,
     number_of_rva_and_sizes |-> 16,
     dir_size |-> Word(40),
     export_rva |-> ExportRvaLow,
     tls_rva |-> TlsRva,
     number_of_functions |-> 0,
     ordinal_table |-> <<>>,
     number_of_callbacks |-> 0]

\* NT-header offsets: plausible, the bound, past the bound, sign bit set
Lfanews == { Word(64), Word(1024), Word(1025), U32(32768, 0), U32(65535, 65472) }

\* directory counts on both sides of each index the accessors look up
DirCounts == { 0, 1, 2, 6, 7, 9, 10, 16 }

\* directory sizes: empty, under one record, whole records, a remainder, u32::MAX
DirSizes ==
    { Word(0), Word(19), Word(27), Word(50), U32(65535, 65535) }
    \cup { Word((k + 1) * SizeOfImageImportDescriptor) : k \in 0..MaxRecords }
    \cup { Word((k + 1) * SizeOfImageDebugDirectory) : k \in 0..MaxRecords }

\* signatures and magics, good and bad
HeaderImages ==
    { [DefaultImage EXCEPT !.e_magic = e, !.e_lfanew = o, !.signature = Word(s),
                           !.magic = g]
      : e \in { IMAGE_DOS_SIGNATURE, 19802 },
        o \in Lfanews,
        s \in { IMAGE_NT_SIGNATURE, 17742 },
        g \in { IMAGE_NT_OPTIONAL_HDR64_MAGIC, IMAGE_NT_OPTIONAL_HDR32_MAGIC } }

\* well-formed headers of every shape
LayoutImages ==
    { [DefaultImage EXCEPT !.base = b, !.e_lfanew = o,
                           !.number_of_rva_and_sizes = d, !.number_of_sections = n]
      : b \in { BaseLow, BaseHigh },
        o \in { Word(64), Word(1024) },
        d \in DirCounts,
        n \in 0..MaxSections }

\* data directories present or absent, of every size
DirImages ==
    { [DefaultImage EXCEPT !.number_of_rva_and_sizes = d, !.dir_size = z,
                           !.tls_rva = t]
      : d \in DirCounts, z \in DirSizes, t \in { Zero, TlsRva } }

\* export directories: the ordinals may or may not be below the function count
ExportImages ==
    { [DefaultImage EXCEPT !.number_of_functions = f, !.ordinal_table = o]
      : f \in 0..MaxFunctions,
        o \in UNION { [1..n -> 0..MaxFunctions] : n \in 0..MaxNames } }

\* export directories at a low and a high RVA of an image mapped low and high
ExportPlacedImages ==
    { [DefaultImage EXCEPT !.base = b, !.export_rva = r,
                           !.number_of_functions = MaxFunctions,
                           !.ordinal_table = [i \in 1..MaxNames |-> MaxNames - i]]
      : b \in { BaseLow, BaseHigh }, r \in { ExportRvaLow, ExportRvaHigh } }

\* callback arrays [cb1, ..., cbn, null]
TlsImages ==
    { [DefaultImage EXCEPT !.number_of_callbacks = n] : n \in 0..MaxCallbacks }

Images ==
    HeaderImages \cup LayoutImages \cup DirImages \cup ExportImages
        \cup ExportPlacedImages \cup TlsImages

\* what an out-of-bounds read of the address table may give
OobValues == { Zero, U32(57005, 48879) }

----------------------------------------------------------------------------
(* The state machine: a caller parsing an image and reading its tables *)

Init ==
    /\ img \in Images
    /\ mem = Image(img)
    /\ headers = Uncalled
    /\ parse_derefs = <<>>
    /\ table = [op |-> "none", ret |-> Uncalled]
    /\ items = [op |-> "none", value |-> <<>>]
    /\ callbacks = None
    /\ yielded = <<>>

Parse ==
    /\ LET r == PeHeaders_parse(mem, img.base)
       IN  /\ headers' = r.result
           /\ parse_derefs' = r.derefs
    /\ UNCHANGED <<mem, img, table, items, callbacks, yielded>>

ExportTableMem ==
    /\ headers.tag = "Ok"
    /\ table' = [op |-> "export_table_mem",
                 ret |-> export_table_mem(mem, headers.value, img.base)]
    /\ UNCHANGED <<mem, img, headers, parse_derefs, items, callbacks, yielded>>

ImportTableMem ==
    /\ headers.tag = "Ok"
    /\ \E r \in import_table_mem(mem, headers.value, img.base) :
            table' = [op |-> "import_table_mem", ret |-> r]
    /\ UNCHANGED <<mem, img, headers, parse_derefs, items, callbacks, yielded>>

DebugTableMem ==
    /\ headers.tag = "Ok"
    /\ \E r \in debug_table_mem(mem, headers.value, img.base) :
            table' = [op |-> "debug_table_mem", ret |-> r]
    /\ UNCHANGED <<mem, img, headers, parse_derefs, items, callbacks, yielded>>

TlsTableMem ==
    /\ headers.tag = "Ok"
    /\ table' = [op |-> "tls_table_mem",
                 ret |-> tls_table_mem(mem, headers.value, img.base)]
    /\ UNCHANGED <<mem, img, headers, parse_derefs, items, callbacks, yielded>>

HasExportTable == table.op = "export_table_mem" /\ table.ret.tag = "Ok"

IterNameOrd ==
    /\ HasExportTable
    /\ items' = [op |-> "iter_name_ord",
                 value |-> iter_name_ord(mem, table.ret.value)]
    /\ UNCHANGED <<mem, img, headers, parse_derefs, table, callbacks, yielded>>

IterStringAddr ==
    /\ HasExportTable
    /\ \E oob \in OobValues :
            items' = [op |-> "iter_string_addr",
                      value |-> iter_string_addr(mem, table.ret.value, img.base, oob)]
    /\ UNCHANGED <<mem, img, headers, parse_derefs, table, callbacks, yielded>>

HasTlsDir ==
    /\ table.op = "tls_table_mem"
    /\ table.ret.tag = "Ok"
    /\ table.ret.value.tag = "Some"

Callbacks ==
    /\ HasTlsDir
    /\ callbacks' = Some(TlsDir_callbacks(mem, table.ret.value.value))
    /\ yielded' = <<>>
    /\ UNCHANGED <<mem, img, headers, parse_derefs, table, items>>

\* a consumer calls next until it returns None, at most MaxCalls times here
CallbacksNext ==
    /\ callbacks.tag = "Some"
    /\ Len(yielded) < MaxCalls
    /\ IF yielded = <<>> THEN TRUE ELSE yielded[Len(yielded)].tag = "Some"
    /\ LET r == TlsCallbacks_next(mem, callbacks.value)
       IN  /\ yielded' = Append(yielded, r.ret)
           /\ callbacks' = Some(r.it)
    /\ UNCHANGED <<mem, img, headers, parse_derefs, table, items>>

Next ==
    \/ Parse
    \/ ExportTableMem
    \/ ImportTableMem
    \/ DebugTableMem
    \/ TlsTableMem
    \/ IterNameOrd
    \/ IterStringAddr
    \/ Callbacks
    \/ CallbacksNext

Spec == Init /\ [][Next]_vars

----------------------------------------------------------------------------
(* Properties *)

\* the data-directory entry of index i is absent from image p
Absent(p, i) == p.number_of_rva_and_sizes <= i

\* a u32 above 1024
Above1024(w) == w[2] > 0 \/ w[1] > 1024

\* [cb1, ..., cbn, null] read to its end: cb1, ..., cbn and then None
ExpectedCallbacks(p) ==
    [k \in 1..(p.number_of_callbacks + 1) |->
        IF k <= p.number_of_callbacks THEN Some(Callback(p, k - 1)) ELSE None]

\* C1: the calls of next on the iterator of a callback array [cb1, ..., cbn,
\* null] return cb1, ..., cbn in that order and then None, n + 1 calls in all.
C1_CallbacksYieldArrayThenNone ==
    callbacks.tag = "Some" =>
        /\ Len(yielded) <= img.number_of_callbacks + 1
        /\ \A k \in 1..Len(yielded) : yielded[k] = ExpectedCallbacks(img)[k]

\* C2: export_table_mem, import_table_mem and debug_table_mem return their
\* Missing*Table error whenever their data-directory entry is absent or has
\* size 0, and build no table view then.
C2_MissingTableWhenAbsentOrEmpty ==
    /\ table.op = "export_table_mem"
         /\ (Absent(img, IMAGE_DIRECTORY_ENTRY_EXPORT) \/ img.dir_size = Zero)
       => table.ret = Err("ExportTable")
    /\ table.op = "import_table_mem"
         /\ (Absent(img, IMAGE_DIRECTORY_ENTRY_IMPORT) \/ img.dir_size = Zero)
       => table.ret = Err("ImportTable")
    /\ table.op = "debug_table_mem"
         /\ (Absent(img, IMAGE_DIRECTORY_ENTRY_DEBUG) \/ img.dir_size = Zero)
       => table.ret = Err("DebugTable")

HeaderFieldBad(p) ==
    \/ p.e_magic # IMAGE_DOS_SIGNATURE
    \/ p.signature # Word(IMAGE_NT_SIGNATURE)
    \/ p.magic # IMAGE_NT_OPTIONAL_HDR64_MAGIC

\* C3: parse returns Err(PeHeaders), and nothing of a header view, whenever the
\* DOS signature, the NT signature at base + offset or the optional-header
\* magic is wrong; when all three are right and the offset is at most 1024 it
\* returns Ok.
C3_ParseRejectsBadHeaders ==
    headers.tag # "Uncalled" =>
        /\ HeaderFieldBad(img) => headers = Err("PeHeaders")
        /\ ~HeaderFieldBad(img) /\ ~Above1024(img.e_lfanew) => headers.tag = "Ok"

C3_Witness ==
    /\ headers = Err("PeHeaders")
    /\ img.e_magic = IMAGE_DOS_SIGNATURE
    /\ img.e_lfanew = Word(64)
    /\ img.signature = Word(IMAGE_NT_SIGNATURE)
    /\ img.magic = IMAGE_NT_OPTIONAL_HDR32_MAGIC

\* C4: an NT-header offset above 1024, its top bit set or not, makes parse
\* return Err(PeHeaders) whatever lies at base + offset, having dereferenced
\* the DOS header only; an offset of 1024 or less passes the check, and parse
\* goes on to read the NT header at base + offset.
C4_OffsetAbove1024Rejected ==
    headers.tag # "Uncalled" =>
        /\ Above1024(img.e_lfanew) =>
              headers = Err("PeHeaders") /\ parse_derefs = <<img.base>>
        /\ ~Above1024(img.e_lfanew) /\ img.e_magic = IMAGE_DOS_SIGNATURE =>
              parse_derefs = <<img.base, NtAddr(img)>>

C4_Witness ==
    /\ headers = Err("PeHeaders")
    /\ parse_derefs = <<img.base>>
    /\ img.e_lfanew = U32(32768, 0)
    /\ ~HeaderFieldBad(img)
    /\ ReadU32(mem, NtAddr(img)) = Word(IMAGE_NT_SIGNATURE)

\* C5: for an accepted image with NT-header offset o, d directories and s
\* sections, the data-directory view starts at base + o + 136 and has d
\* entries, the section-header view starts 8 * d bytes further and has s
\* entries, and the fields read through the views are those of the image.
C5_ViewsWhereTheImageHasThem ==
    headers.tag = "Ok" =>
        LET h == headers.value
            dirs == ptr_add(ptr_add(img.base, img.e_lfanew),
                            Word(SizeOfImageNtHeaders64))
        IN  /\ h.dos_header = img.base
            /\ h.nt_header = ptr_add(img.base, img.e_lfanew)
            /\ h.data_directories = Slice(dirs, Word(img.number_of_rva_and_sizes))
            /\ h.section_headers =
                  Slice(ptr_add(dirs, Word(SizeOfImageDataDirectory
                                               * img.number_of_rva_and_sizes)),
                        Word(img.number_of_sections))
            /\ \A i \in 0..(img.number_of_rva_and_sizes - 1) :
                  data_directories_get(mem, h.data_directories, i)
                      = Some(DirEntry(img, i))
            /\ \A j \in 0..(img.number_of_sections - 1) :
                  section_virtual_address(mem, h.section_headers, j)
                      = SectionVirtualAddress(j)

C5_Witness ==
    /\ headers.tag = "Ok"
    /\ img.base = BaseHigh
    /\ img.e_lfanew = Word(1024)
    /\ img.number_of_rva_and_sizes = 16
    /\ img.number_of_sections = MaxSections
    /\ headers.value.section_headers.len = Word(MaxSections)

\* C6: iter_name_ord yields the N pairs (name_table[i], ordinal_table[i]) in
\* table order, the name and ordinal views both having length N; and when
\* every ordinal is below the function count F, item i of iter_string_addr is
\* the name at base + name_table[i] with base + address_table[ordinal_table[i]].
C6_ExportPairsInTableOrder ==
    /\ HasExportTable =>
          /\ table.ret.value.name_table.len = Word(NumberOfNames(img))
          /\ table.ret.value.ordinal_table.len = Word(NumberOfNames(img))
    /\ items.op = "iter_name_ord" =>
          items.value = [i \in 1..NumberOfNames(img) |->
                            <<NameRva(img, i - 1), img.ordinal_table[i]>>]
    /\ items.op = "iter_string_addr"
         /\ (\A i \in 1..NumberOfNames(img) :
                img.ordinal_table[i] < img.number_of_functions)
       => items.value = [i \in 1..NumberOfNames(img) |->
                            <<NameString(i - 1),
                              ptr_add(img.base, FunctionRva(img.ordinal_table[i]))>>]

C6_Witness ==
    /\ items.op = "iter_string_addr"
    /\ img.number_of_functions = 2
    /\ img.ordinal_table = <<1, 0>>
    /\ Len(items.value) = 2
    /\ items.value[1][2] = ptr_add(img.base, FunctionRva(1))

\* C7: an import (debug) directory present with size (k + 1) * 20 (resp.
\* (k + 1) * 28) gives a view of exactly k descriptors at base + directory
\* RVA: the terminating record is not counted.
C7_TerminatorExcluded ==
    \A k \in 0..MaxRecords :
        /\ table.op = "import_table_mem"
             /\ ~Absent(img, IMAGE_DIRECTORY_ENTRY_IMPORT)
             /\ img.dir_size = Word((k + 1) * SizeOfImageImportDescriptor)
           => table.ret = Ok([import_descriptors |->
                                 Slice(ptr_add(img.base, ImportRva), Word(k))])
        /\ table.op = "debug_table_mem"
             /\ ~Absent(img, IMAGE_DIRECTORY_ENTRY_DEBUG)
             /\ img.dir_size = Word((k + 1) * SizeOfImageDebugDirectory)
           => table.ret = Ok([debug_descriptors |->
                                 Slice(ptr_add(img.base, DebugRva), Word(k))])

C7_Witness ==
    /\ table.op = "debug_table_mem"
    /\ img.dir_size = Word(3 * SizeOfImageDebugDirectory)
    /\ table.ret.tag = "Ok"
    /\ table.ret.value.debug_descriptors.len = Word(2)

\* C8: tls_table_mem returns Err(TlsTable) exactly when index 9 is outside the
\* data-directory array; otherwise Ok(None) exactly when the entry's RVA is 0,
\* whatever its size; otherwise Ok(Some(view)) with the view at base + RVA.
C8_TlsThreeOutcomes ==
    table.op = "tls_table_mem" =>
        IF Absent(img, IMAGE_DIRECTORY_ENTRY_TLS)
        THEN table.ret = Err("TlsTable")
        ELSE IF img.tls_rva = Zero
        THEN table.ret = Ok(None)
        ELSE table.ret = Ok(Some([tls_dir |-> ptr_add(img.base, img.tls_rva)]))

C8_Witness ==
    /\ table.op = "tls_table_mem"
    /\ table.ret = Ok(None)
    /\ img.tls_rva = Zero
    /\ img.dir_size = U32(65535, 65535)

\* C9: the start of each of the three export arrays, computed as (address +
\* field_rva) - directory_rva with address = base + directory_rva, is base +
\* field_rva, also when an intermediate sum passes 2^64.
C9_ExportArraysAtBasePlusRva ==
    HasExportTable =>
        /\ table.ret.value.address_table.ptr
              = ptr_add(img.base, AddressOfFunctions(img))
        /\ table.ret.value.name_table.ptr = ptr_add(img.base, AddressOfNames(img))
        /\ table.ret.value.ordinal_table.ptr
              = ptr_add(img.base, AddressOfNameOrdinals(img))

\* the sum address + field_rva has wrapped around, and the table is found
C9_Witness ==
    /\ HasExportTable
    /\ img.base = BaseHigh
    /\ img.export_rva = ExportRvaHigh
    /\ usize_gt(ExportAddr(img), ptr_add(ExportAddr(img), AddressOfNames(img)))
    /\ table.ret.value.name_table.ptr = ptr_add(img.base, AddressOfNames(img))

\* the count of a returned table view, whichever table it is
DescriptorCount(ret) ==
    IF "import_descriptors" \in DOMAIN ret.value
    THEN ret.value.import_descriptors.len
    ELSE ret.value.debug_descriptors.len

\* n = size / record_size - 1 without underflow, and (n + 1) * record_size <= size
FitsDirectory(ret, size, record_size) ==
    /\ ret.tag = "Ok"
    /\ usize_gt(usize_div(size, record_size), DescriptorCount(ret))
    /\ usize_le(usize_mul(ptr_add(DescriptorCount(ret), Word(1)), record_size), size)

\* C10: for every size of a present import or debug directory, 0 and sizes
\* under one record included, the descriptor count n is computed without
\* unsigned underflow and (n + 1) * record_size <= size.
C10_CountWithinDirectory ==
    /\ table.op = "import_table_mem" /\ ~Absent(img, IMAGE_DIRECTORY_ENTRY_IMPORT)
       => FitsDirectory(table.ret, img.dir_size, SizeOfImageImportDescriptor)
    /\ table.op = "debug_table_mem" /\ ~Absent(img, IMAGE_DIRECTORY_ENTRY_DEBUG)
       => FitsDirectory(table.ret, img.dir_size, SizeOfImageDebugDirectory)

====
